---- MODULE Spec2Model ----
(***************************************************************************)
(* State-machine model of sample-node-api/server.js: the three backend     *)
(* connections (Redis, MongoDB, RabbitMQ), the availability they expose,   *)
(* and the route handlers that choose between the live backend and the     *)
(* in-process fallback.                                                    *)
(*                                                                         *)
(* A handler that contains no await runs to completion in one action.  A   *)
(* handler that awaits a backend call is two actions: the part up to the   *)
(* await (it adds the call to inflight) and the continuation, which runs   *)
(* when the backend has answered or raised (it removes the call and sends  *)
(* the response).  last is the response sent by the latest step.           *)
(***************************************************************************)
EXTENDS Integers, Sequences, FiniteSets

\* ---------------------------------------------------------------- bounds
\* Awaited backend calls that may be outstanding at one time.
MaxInflight == 2
\* Records the in-memory substitute may hold beyond its two seed records.
MaxMemCreates == 2
\* Documents the users collection may hold.
MaxDocs == 2
\* Largest value of the api_counter key.
MaxCounter == 2

\* ------------------------------------------------------------- constants
NULL == "null"
\* The ioredis client object (line 52 / 62).
CLIENT == "client"
\* The amqplib channel object (line 124).
CHANNEL == "channel"

Backends == {"redis", "mongodb", "rabbitmq"}

\* The awaited backend calls of the routes.
Calls == {"find", "create", "findById", "get", "incr", "checkQueue"}

\* Request bodies: a field is either absent/empty or present.
NameInputs == {"", "Ann"}
EmailInputs == {"", "ann@x.com"}
MessageInputs == {"", "hello"}

VARIABLES
  MSMQ_ENABLE,      \* line 105, fixed at start
  running,          \* whether the Node process is alive
  redis,            \* line 39: NULL or CLIENT
  redisLink,        \* the client's socket: none, connecting, up, refused, lost, retrying
  counter,          \* the api_counter key in Redis
  mongoConnected,   \* line 80
  mongoPc,          \* connectMongo: connecting, connected, failed; lost when the
                    \* connection has dropped after a successful connect
  docs,             \* the users collection, in insertion order
  rabbitChannel,    \* line 103: NULL or CHANNEL
  rabbitConnected,  \* line 104
  rabbitPc,         \* connectRabbitMQ: disabled, connect, createChannel, assertQueue, done, failed, closed
  chanOpen,         \* whether the amqplib channel is open at the broker (the queue's
                    \* contents are the broker's and are not modelled)
  inMemoryUsers,    \* line 211
  inflight,         \* awaited backend calls outstanding, per call
  last,             \* the response the latest step sent, NoResponse if it sent none
  returned,         \* history: the api_counter key at start, and the values the
                    \* successful increments returned, in order
  created,          \* history: the records the successful creates returned, per storage
  liveAfterFail     \* history: backends on which a live call was issued after their connect failed

vars == <<MSMQ_ENABLE, running, redis, redisLink, counter, mongoConnected, mongoPc, docs,
          rabbitChannel, rabbitConnected, rabbitPc, chanOpen,
          inMemoryUsers, inflight, last, returned, created, liveAfterFail>>

redisVars == <<redis, redisLink, counter>>
mongoVars == <<mongoConnected, mongoPc, docs>>
rabbitVars == <<rabbitChannel, rabbitConnected, rabbitPc, chanOpen>>

\* ------------------------------------------------------------- responses
NoServices == [redis |-> "", mongodb |-> "", rabbitmq |-> ""]

\* A response.  keys are the fields present in the JSON body; a field that
\* is not in keys holds a default here.  The last four fields are history:
\* src is where the returned value came from ("live", "fallback" or "none"),
\* live is what the awaited backend call of the request did ("none" when it
\* made none, "ok" or "raised"), stored is whether the request stored a user
\* record, publish is what sendToQueue did ("none", "sent" or "threw").
Resp(route, status, keys, success, storage, src) ==
  [route |-> route, status |-> status, keys |-> keys, success |-> success,
   storage |-> storage, counter |-> 0, count |-> 0, data |-> <<>>,
   error |-> "", services |-> NoServices, rabbitmq |-> "",
   src |-> src, live |-> "none", stored |-> FALSE, publish |-> "none"]

NoResponse == Resp("", 0, {}, FALSE, "", "none")

\* ------------------------------------------------------------ user stores
SeedUsers ==
  << [id |-> 1, name |-> "John Doe", email |-> "john@example.com"],
     [id |-> 2, name |-> "Jane Smith", email |-> "jane@example.com"] >>

\* A document of the users collection: _id is modelled by the insertion
\* ordinal, createdAt by a millisecond tick.
Doc(n, t) == [id |-> n, name |-> "Ann", email |-> "ann@x.com", createdAt |-> t]

\* The collections the process may find at start: empty, or one document of
\* an earlier run.
PreDocs == { <<>>, <<Doc(1, 1)>> }

\* The api_counter key at start: absent (read as 0), or left at 1 by an
\* earlier run.
CounterStarts == {0, 1}

NoCalls == [c \in Calls |-> 0]

RECURSIVE SumOver(_, _)
SumOver(f, S) ==
  IF S = {} THEN 0
  ELSE LET x == CHOOSE y \in S : TRUE IN f[x] + SumOver(f, S \ {x})

Outstanding == SumOver(inflight, Calls)

Issue(c) == inflight' = [inflight EXCEPT ![c] = @ + 1]
Settle(c) == inflight' = [inflight EXCEPT ![c] = @ - 1]

\* ------------------------------------------------------------------ Init
\* The state when the module has been loaded: connectRedis has run to its
\* end (it has no await), connectMongo and connectRabbitMQ are suspended at
\* their first await, or connectRabbitMQ has returned because it is disabled.
Init ==
  /\ MSMQ_ENABLE \in BOOLEAN
  /\ running = TRUE
  /\ \/ redis = CLIENT /\ redisLink = "connecting"
     \/ redis = NULL /\ redisLink = "none"
  /\ counter \in CounterStarts
  /\ mongoConnected = FALSE
  /\ mongoPc = "connecting"
  /\ docs \in PreDocs
  /\ rabbitChannel = NULL
  /\ rabbitConnected = FALSE
  /\ rabbitPc = IF MSMQ_ENABLE THEN "connect" ELSE "disabled"
  /\ chanOpen = FALSE
  /\ inMemoryUsers = SeedUsers
  /\ inflight = NoCalls
  /\ last = NoResponse
  /\ returned = [start |-> counter, values |-> <<>>]
  /\ created = [memory |-> <<>>, mongodb |-> <<>>]
  /\ liveAfterFail = {}


\* ------------------------------------------------------------ Redis client
\* A 'connect' handler that puts the client back into redis.
RedisConnectRestores ==
  /\ running
  /\ redisLink \in {"connecting", "retrying"}
  /\ redisLink' = "up"
  /\ redis' = CLIENT
  /\ UNCHANGED counter
  /\ last' = NoResponse
  /\ UNCHANGED <<MSMQ_ENABLE, running, mongoVars, rabbitVars, inMemoryUsers, inflight, returned, created, liveAfterFail>>

\* redis.on('connect'): the socket is up; the handler only logs.
RedisConnectEvent ==
  /\ running
  /\ redisLink \in {"connecting", "retrying"}
  /\ redisLink' = "up"
  /\ UNCHANGED <<redis, counter>>
  /\ last' = NoResponse
  /\ UNCHANGED <<MSMQ_ENABLE, running, mongoVars, rabbitVars, inMemoryUsers, inflight, returned, created, liveAfterFail>>

\* What the 'error' handler leaves in redis.
RedisAfterError(r) == NULL

\* redis.on('error'): a connect attempt was refused, or the socket was lost.
RedisErrorEvent ==
  /\ running
  /\ redisLink \in {"connecting", "retrying", "up"}
  /\ redisLink' = IF redisLink = "up" THEN "lost" ELSE "refused"
  /\ redis' = RedisAfterError(redis)
  /\ UNCHANGED counter
  /\ last' = NoResponse
  /\ UNCHANGED <<MSMQ_ENABLE, running, mongoVars, rabbitVars, inMemoryUsers, inflight, returned, created, liveAfterFail>>

\* The client retries on its own; nothing in server.js takes part.
RedisRetry ==
  /\ running
  /\ redisLink \in {"refused", "lost"}
  /\ redisLink' = "retrying"
  /\ UNCHANGED <<redis, counter>>
  /\ last' = NoResponse
  /\ UNCHANGED <<MSMQ_ENABLE, running, mongoVars, rabbitVars, inMemoryUsers, inflight, returned, created, liveAfterFail>>

\* ---------------------------------------------------------------- MongoDB
MongoConnectOk ==
  /\ running
  /\ mongoPc = "connecting"
  /\ mongoPc' = "connected"
  /\ mongoConnected' = TRUE
  /\ UNCHANGED docs
  /\ last' = NoResponse
  /\ UNCHANGED <<MSMQ_ENABLE, running, redisVars, rabbitVars, inMemoryUsers, inflight, returned, created, liveAfterFail>>

\* A catch that marks the store connected.
MongoAfterConnectFailSet == TRUE

\* What the catch of connectMongo leaves in mongoConnected.
MongoAfterConnectFail == FALSE

MongoConnectFail ==
  /\ running
  /\ mongoPc = "connecting"
  /\ mongoPc' = "failed"
  /\ mongoConnected' = MongoAfterConnectFail
  /\ UNCHANGED docs
  /\ last' = NoResponse
  /\ UNCHANGED <<MSMQ_ENABLE, running, redisVars, rabbitVars, inMemoryUsers, inflight, returned, created, liveAfterFail>>

\* The connection to MongoDB drops after a successful connect.  server.js
\* registers no handler on mongoose.connection, so nothing in the process
\* runs and mongoConnected keeps its value.
MongoLost ==
  /\ running
  /\ mongoPc = "connected"
  /\ mongoPc' = "lost"
  /\ UNCHANGED <<mongoConnected, docs>>
  /\ last' = NoResponse
  /\ UNCHANGED <<MSMQ_ENABLE, running, redisVars, rabbitVars, inMemoryUsers, inflight, returned, created, liveAfterFail>>

\* --------------------------------------------------------------- RabbitMQ
\* A connectRabbitMQ without the early return of line 117: it connects
\* whatever MSMQ_ENABLE says.
RabbitConnectAlways ==
  /\ running
  /\ rabbitPc \in {"connect", "disabled"}
  /\ rabbitPc' = "createChannel"
  /\ UNCHANGED <<rabbitChannel, rabbitConnected, chanOpen>>
  /\ last' = NoResponse
  /\ UNCHANGED <<MSMQ_ENABLE, running, redisVars, mongoVars, inMemoryUsers, inflight, returned, created, liveAfterFail>>

\* amqplib.connect resolved.
RabbitConnectOk ==
  /\ running
  /\ rabbitPc = "connect"
  /\ rabbitPc' = "createChannel"
  /\ UNCHANGED <<rabbitChannel, rabbitConnected, chanOpen>>
  /\ last' = NoResponse
  /\ UNCHANGED <<MSMQ_ENABLE, running, redisVars, mongoVars, inMemoryUsers, inflight, returned, created, liveAfterFail>>

\* connection.createChannel resolved.
RabbitCreateChannelOk ==
  /\ running
  /\ rabbitPc = "createChannel"
  /\ rabbitPc' = "assertQueue"
  /\ rabbitChannel' = CHANNEL
  /\ chanOpen' = TRUE
  /\ UNCHANGED rabbitConnected
  /\ last' = NoResponse
  /\ UNCHANGED <<MSMQ_ENABLE, running, redisVars, mongoVars, inMemoryUsers, inflight, returned, created, liveAfterFail>>

\* rabbitChannel.assertQueue resolved; the connection's handlers are registered.
RabbitAssertQueueOk ==
  /\ running
  /\ rabbitPc = "assertQueue"
  /\ rabbitPc' = "done"
  /\ rabbitConnected' = TRUE
  /\ UNCHANGED <<rabbitChannel, chanOpen>>
  /\ last' = NoResponse
  /\ UNCHANGED <<MSMQ_ENABLE, running, redisVars, mongoVars, inMemoryUsers, inflight, returned, created, liveAfterFail>>

\* One of the three awaits of connectRabbitMQ rejected: the catch.
RabbitConnectFail ==
  /\ running
  /\ rabbitPc \in {"connect", "createChannel", "assertQueue"}
  /\ rabbitPc' = "failed"
  /\ rabbitConnected' = FALSE
  /\ rabbitChannel' = NULL
  /\ chanOpen' = FALSE
  /\ last' = NoResponse
  /\ UNCHANGED <<MSMQ_ENABLE, running, redisVars, mongoVars, inMemoryUsers, inflight, returned, created, liveAfterFail>>

\* connection.on('error').
RabbitErrorEvent ==
  /\ running
  /\ rabbitPc = "done"
  /\ rabbitPc' = "closed"
  /\ rabbitConnected' = FALSE
  /\ rabbitChannel' = NULL
  /\ chanOpen' = FALSE
  /\ last' = NoResponse
  /\ UNCHANGED <<MSMQ_ENABLE, running, redisVars, mongoVars, inMemoryUsers, inflight, returned, created, liveAfterFail>>

\* A 'close' handler that drops the channel and leaves the flag set.
RabbitCloseKeepsFlag ==
  /\ running
  /\ rabbitPc = "done"
  /\ rabbitPc' = "closed"
  /\ rabbitChannel' = NULL
  /\ chanOpen' = FALSE
  /\ UNCHANGED rabbitConnected
  /\ last' = NoResponse
  /\ UNCHANGED <<MSMQ_ENABLE, running, redisVars, mongoVars, inMemoryUsers, inflight, returned, created, liveAfterFail>>

\* connection.on('close').
RabbitCloseEvent ==
  /\ running
  /\ rabbitPc = "done"
  /\ rabbitPc' = "closed"
  /\ rabbitConnected' = FALSE
  /\ rabbitChannel' = NULL
  /\ chanOpen' = FALSE
  /\ last' = NoResponse
  /\ UNCHANGED <<MSMQ_ENABLE, running, redisVars, mongoVars, inMemoryUsers, inflight, returned, created, liveAfterFail>>

\* The broker closes the channel and leaves the connection open (a channel
\* error).  server.js registers no handler on the channel, so rabbitChannel
\* keeps the closed channel.
ChannelClosed ==
  /\ running
  /\ chanOpen
  /\ chanOpen' = FALSE
  /\ UNCHANGED <<rabbitChannel, rabbitConnected, rabbitPc>>
  /\ last' = NoResponse
  /\ UNCHANGED <<MSMQ_ENABLE, running, redisVars, mongoVars, inMemoryUsers, inflight, returned, created, liveAfterFail>>

\* The connection emits 'error' while connectRabbitMQ is suspended at
\* createChannel or assertQueue: connection.on('error') is registered at
\* line 129 only, after the three awaits, so the event has no listener, the
\* emit throws and the process exits.  The requests outstanding are never
\* answered.
RabbitErrorUnhandled ==
  /\ running
  /\ rabbitPc \in {"createChannel", "assertQueue"}
  /\ running' = FALSE
  /\ last' = NoResponse
  /\ UNCHANGED <<MSMQ_ENABLE, redisVars, mongoVars, rabbitVars, inMemoryUsers, inflight, returned, created, liveAfterFail>>

\* ----------------------------------------------------- availability as read
\* Whether the connect attempt of a backend has failed and no later attempt
\* has succeeded.
ConnectFailed(b) ==
  CASE b = "redis" -> redisLink \in {"none", "refused", "retrying"}
    [] b = "mongodb" -> mongoPc = "failed"
    [] b = "rabbitmq" -> rabbitPc = "failed"

\* The services object of GET /health and GET /info.
RabbitStatus == IF rabbitConnected THEN "connected" ELSE "not connected"

Services ==
  [redis |-> IF redis # NULL THEN "connected" ELSE "not connected",
   mongodb |-> IF mongoConnected THEN "connected" ELSE "not connected",
   rabbitmq |-> RabbitStatus]

\* History: a live call is being issued against backend b.
NoteLive(B) == liveAfterFail' = liveAfterFail \cup {b \in B : ConnectFailed(b)}


\* ------------------------------------------------- GET /health, GET /info
Health ==
  /\ running
  /\ last' = [Resp("GET /health", 200, {"status", "timestamp", "uptime", "services"},
                   FALSE, "", "none") EXCEPT !.services = Services]
  /\ UNCHANGED <<MSMQ_ENABLE, running, redisVars, mongoVars, rabbitVars, inMemoryUsers, inflight, returned, created, liveAfterFail>>

Info ==
  /\ running
  /\ last' = [Resp("GET /info", 200, {"nodeVersion", "platform", "memory", "environment",
                   "port", "services"}, FALSE, "", "none") EXCEPT !.services = Services]
  /\ UNCHANGED <<MSMQ_ENABLE, running, redisVars, mongoVars, rabbitVars, inMemoryUsers, inflight, returned, created, liveAfterFail>>

\* -------------------------------------------------------------- GET /users
UsersBody == {"success", "count", "storage", "data"}

\* The response of lines 223 and 226.
UsersFromMemory ==
  [Resp("GET /users", 200, UsersBody, TRUE, "memory", "fallback")
     EXCEPT !.count = Len(inMemoryUsers), !.data = inMemoryUsers]

\* A find without the sort: the documents in insertion order.
FindUnsorted == {docs}

\* User.find().sort({createdAt: -1}): every document, newest first; documents
\* of the same millisecond come in either order.
FindSorted ==
  { s \in [1..Len(docs) -> {docs[i] : i \in 1..Len(docs)}] :
      /\ \A i, j \in 1..Len(docs) : i # j => s[i] # s[j]
      /\ \A i \in 1..(Len(docs) - 1) : s[i].createdAt >= s[i + 1].createdAt }

\* A handler that keeps to the memory path once a record has been created
\* in memory.
GetUsersMemorySticky ==
  /\ running
  /\ ~mongoConnected \/ created.memory # <<>>
  /\ last' = UsersFromMemory
  /\ UNCHANGED <<MSMQ_ENABLE, running, redisVars, mongoVars, rabbitVars, inMemoryUsers, inflight, returned, created, liveAfterFail>>

GetUsersMemory ==
  /\ running
  /\ ~mongoConnected
  /\ last' = UsersFromMemory
  /\ UNCHANGED <<MSMQ_ENABLE, running, redisVars, mongoVars, rabbitVars, inMemoryUsers, inflight, returned, created, liveAfterFail>>

GetUsersStart ==
  /\ running
  /\ mongoConnected
  /\ Outstanding < MaxInflight
  /\ Issue("find")
  /\ NoteLive({"mongodb"})
  /\ last' = NoResponse
  /\ UNCHANGED <<MSMQ_ENABLE, running, redisVars, mongoVars, rabbitVars, inMemoryUsers, returned, created>>

GetUsersFound ==
  /\ running
  /\ inflight["find"] > 0
  /\ Settle("find")
  /\ \E users \in FindSorted :
       last' = [Resp("GET /users", 200, UsersBody, TRUE, "mongodb", "live")
                  EXCEPT !.count = Len(users), !.data = users, !.live = "ok"]
  /\ UNCHANGED <<MSMQ_ENABLE, running, redisVars, mongoVars, rabbitVars, inMemoryUsers, returned, created, liveAfterFail>>

\* User.find rejected: the catch of line 224.
GetUsersCatch ==
  /\ running
  /\ inflight["find"] > 0
  /\ Settle("find")
  /\ last' = [UsersFromMemory EXCEPT !.live = "raised"]
  /\ UNCHANGED <<MSMQ_ENABLE, running, redisVars, mongoVars, rabbitVars, inMemoryUsers, returned, created, liveAfterFail>>

\* ------------------------------------------------------------- POST /users
\* An id taken from the length alone.
LengthAsId(users) == Len(users)

\* The id of line 254.
NewUserId(users) == Len(users) + 1

\* createdAt of a new document: Date.now, which is the newest document's
\* millisecond or a later one.
NewestTick == IF docs = <<>> THEN 0 ELSE docs[Len(docs)].createdAt
NewTicks == IF docs = <<>> THEN {1} ELSE {NewestTick, NewestTick + 1}

\* A handler without the check of line 234: with MongoDB down it stores
\* whatever body it was given.
PostUsersUnchecked(name, email) ==
  /\ running
  /\ name = "" \/ email = ""
  /\ ~mongoConnected
  /\ Len(inMemoryUsers) < Len(SeedUsers) + MaxMemCreates
  /\ LET newUser == [id |-> NewUserId(inMemoryUsers), name |-> name, email |-> email] IN
       /\ inMemoryUsers' = Append(inMemoryUsers, newUser)
       /\ last' = [Resp("POST /users", 201, {"success", "storage", "data"}, TRUE, "memory", "fallback")
                     EXCEPT !.data = <<newUser>>, !.stored = TRUE]
  /\ UNCHANGED <<MSMQ_ENABLE, running, redisVars, mongoVars, rabbitVars, inflight, returned, created, liveAfterFail>>

PostUsersInvalid(name, email) ==
  /\ running
  /\ name = "" \/ email = ""
  /\ last' = [Resp("POST /users", 400, {"success", "error"}, FALSE, "", "none")
                EXCEPT !.error = "Name and email are required"]
  /\ UNCHANGED <<MSMQ_ENABLE, running, redisVars, mongoVars, rabbitVars, inMemoryUsers, inflight, returned, created, liveAfterFail>>

\* A memory create that also writes the record to the users collection.
PostUsersMemoryCopies(name, email) ==
  /\ running
  /\ name # "" /\ email # ""
  /\ ~mongoConnected
  /\ Len(inMemoryUsers) < Len(SeedUsers) + MaxMemCreates
  /\ Len(docs) < MaxDocs
  /\ LET newUser == [id |-> NewUserId(inMemoryUsers), name |-> name, email |-> email] IN
       /\ inMemoryUsers' = Append(inMemoryUsers, newUser)
       /\ docs' = Append(docs, Doc(Len(docs) + 1, NewestTick + 1))
       /\ last' = [Resp("POST /users", 201, {"success", "storage", "data"}, TRUE, "memory", "fallback")
                     EXCEPT !.data = <<newUser>>, !.stored = TRUE]
       /\ created' = [created EXCEPT !.memory = Append(@, newUser)]
  /\ UNCHANGED <<mongoConnected, mongoPc>>
  /\ UNCHANGED <<MSMQ_ENABLE, running, redisVars, rabbitVars, inflight, returned, liveAfterFail>>

PostUsersMemory(name, email) ==
  /\ running
  /\ name # "" /\ email # ""
  /\ ~mongoConnected
  /\ Len(inMemoryUsers) < Len(SeedUsers) + MaxMemCreates
  /\ LET newUser == [id |-> NewUserId(inMemoryUsers), name |-> name, email |-> email] IN
       /\ inMemoryUsers' = Append(inMemoryUsers, newUser)
       /\ last' = [Resp("POST /users", 201, {"success", "storage", "data"}, TRUE, "memory", "fallback")
                     EXCEPT !.data = <<newUser>>, !.stored = TRUE]
       /\ created' = [created EXCEPT !.memory = Append(@, newUser)]
  /\ UNCHANGED <<MSMQ_ENABLE, running, redisVars, mongoVars, rabbitVars, inflight, returned, liveAfterFail>>

\* Lines 232-240 up to the await of User.create.  The only valid body is
\* Ann's, so the call carries no argument.
PostUsersStart(name, email) ==
  /\ running
  /\ name # "" /\ email # ""
  /\ mongoConnected
  /\ Outstanding < MaxInflight
  /\ Issue("create")
  /\ NoteLive({"mongodb"})
  /\ last' = NoResponse
  /\ UNCHANGED <<MSMQ_ENABLE, running, redisVars, mongoVars, rabbitVars, inMemoryUsers, returned, created>>

\* User.create resolved: lines 241-250, and the catch of line 258 when
\* sendToQueue throws on a closed channel.
PostUsersCreated ==
  /\ running
  /\ inflight["create"] > 0
  /\ Len(docs) < MaxDocs
  /\ Settle("create")
  /\ \E t \in NewTicks :
       LET newUser == Doc(Len(docs) + 1, t)
           answer == [Resp("POST /users", 201, {"success", "storage", "data"}, TRUE, "mongodb", "live")
                        EXCEPT !.data = <<newUser>>, !.stored = TRUE, !.live = "ok"]
       IN
         /\ docs' = Append(docs, newUser)
         /\ IF rabbitChannel = NULL
            THEN /\ last' = answer
                 /\ created' = [created EXCEPT !.mongodb = Append(@, newUser)]
                 /\ UNCHANGED liveAfterFail
            ELSE /\ NoteLive({"rabbitmq"})
                 /\ IF chanOpen
                    THEN /\ last' = [answer EXCEPT !.publish = "sent"]
                         /\ created' = [created EXCEPT !.mongodb = Append(@, newUser)]
                    ELSE /\ last' = [Resp("POST /users", 500, {"success", "error"}, FALSE, "", "none")
                                       EXCEPT !.error = "Failed to create user", !.stored = TRUE,
                                              !.live = "ok", !.publish = "threw"]
                         /\ UNCHANGED created
  /\ UNCHANGED <<mongoConnected, mongoPc, rabbitChannel, rabbitConnected, rabbitPc, chanOpen>>
  /\ UNCHANGED <<MSMQ_ENABLE, running, redisVars, inMemoryUsers, returned>>

\* User.create rejected: the catch of line 258.
PostUsersCatch ==
  /\ running
  /\ inflight["create"] > 0
  /\ Settle("create")
  /\ last' = [Resp("POST /users", 500, {"success", "error"}, FALSE, "", "none")
                EXCEPT !.error = "Failed to create user", !.live = "raised"]
  /\ UNCHANGED <<MSMQ_ENABLE, running, redisVars, mongoVars, rabbitVars, inMemoryUsers, returned, created, liveAfterFail>>

\* ---------------------------------------------------------- GET /users/:id
IdInputs == 0..(Len(SeedUsers) + MaxMemCreates + 1)

UserNotFound ==
  [Resp("GET /users/:id", 404, {"success", "error"}, FALSE, "", "none")
     EXCEPT !.error = "User not found"]

GetUserMemory(id) ==
  /\ running
  /\ ~mongoConnected
  /\ last' = IF \E i \in 1..Len(inMemoryUsers) : inMemoryUsers[i].id = id
             THEN LET i == CHOOSE k \in 1..Len(inMemoryUsers) :
                              /\ inMemoryUsers[k].id = id
                              /\ \A j \in 1..(k - 1) : inMemoryUsers[j].id # id
                  IN [Resp("GET /users/:id", 200, {"success", "storage", "data"}, TRUE, "memory", "fallback")
                        EXCEPT !.data = <<inMemoryUsers[i]>>]
             ELSE UserNotFound
  /\ UNCHANGED <<MSMQ_ENABLE, running, redisVars, mongoVars, rabbitVars, inMemoryUsers, inflight, returned, created, liveAfterFail>>

GetUserStart ==
  /\ running
  /\ mongoConnected
  /\ Outstanding < MaxInflight
  /\ Issue("findById")
  /\ NoteLive({"mongodb"})
  /\ last' = NoResponse
  /\ UNCHANGED <<MSMQ_ENABLE, running, redisVars, mongoVars, rabbitVars, inMemoryUsers, returned, created>>

\* User.findById resolved, with the document of the id the request carries
\* or with null.
GetUserFound(id) ==
  /\ running
  /\ inflight["findById"] > 0
  /\ Settle("findById")
  /\ last' = IF \E i \in 1..Len(docs) : docs[i].id = id
             THEN LET i == CHOOSE k \in 1..Len(docs) : docs[k].id = id
                  IN [Resp("GET /users/:id", 200, {"success", "storage", "data"}, TRUE, "mongodb", "live")
                        EXCEPT !.data = <<docs[i]>>, !.live = "ok"]
             ELSE [UserNotFound EXCEPT !.live = "ok"]
  /\ UNCHANGED <<MSMQ_ENABLE, running, redisVars, mongoVars, rabbitVars, inMemoryUsers, returned, created, liveAfterFail>>

\* User.findById rejected: the catch of line 276.
GetUserCatch ==
  /\ running
  /\ inflight["findById"] > 0
  /\ Settle("findById")
  /\ last' = [Resp("GET /users/:id", 500, {"success", "error"}, FALSE, "", "none")
                EXCEPT !.error = "Failed to fetch user", !.live = "raised"]
  /\ UNCHANGED <<MSMQ_ENABLE, running, redisVars, mongoVars, rabbitVars, inMemoryUsers, returned, created, liveAfterFail>>


\* ------------------------------------------------------------ GET /counter
CounterBody == {"success", "counter", "storage"}

\* The storage field of line 298, read when the response is built.
CounterStorage == IF redis # NULL THEN "redis" ELSE "not available"

GetCounterNoRedis ==
  /\ running
  /\ redis = NULL
  /\ last' = Resp("GET /counter", 200, CounterBody, TRUE, CounterStorage, "fallback")
  /\ UNCHANGED <<MSMQ_ENABLE, running, redisVars, mongoVars, rabbitVars, inMemoryUsers, inflight, returned, created, liveAfterFail>>

GetCounterStart ==
  /\ running
  /\ redis # NULL
  /\ Outstanding < MaxInflight
  /\ Issue("get")
  /\ NoteLive({"redis"})
  /\ last' = NoResponse
  /\ UNCHANGED <<MSMQ_ENABLE, running, redisVars, mongoVars, rabbitVars, inMemoryUsers, returned, created>>

\* redis.get resolved: the server answers once the socket is up.
GetCounterReply ==
  /\ running
  /\ inflight["get"] > 0
  /\ redisLink = "up"
  /\ Settle("get")
  /\ last' = [Resp("GET /counter", 200, CounterBody, TRUE, CounterStorage, "live")
                EXCEPT !.counter = counter, !.live = "ok"]
  /\ UNCHANGED <<MSMQ_ENABLE, running, redisVars, mongoVars, rabbitVars, inMemoryUsers, returned, created, liveAfterFail>>

\* redis.get rejected: the catch of line 290 leaves count at 0.
GetCounterCatch ==
  /\ running
  /\ inflight["get"] > 0
  /\ Settle("get")
  /\ last' = [Resp("GET /counter", 200, CounterBody, TRUE, CounterStorage, "fallback")
                EXCEPT !.live = "raised"]
  /\ UNCHANGED <<MSMQ_ENABLE, running, redisVars, mongoVars, rabbitVars, inMemoryUsers, returned, created, liveAfterFail>>

\* -------------------------------------------------- POST /counter/increment
\* A read in the place of INCR: the key keeps its value.
RedisRead(v) == v

\* INCR: the value the key holds afterwards, which is also the reply.
RedisIncr(v) == v + 1

\* A handler that answers a missing cache with a counter of its own.
IncrLocalCounter ==
  [Resp("POST /counter/increment", 200, {"success", "counter", "storage"}, TRUE,
        "memory", "fallback") EXCEPT !.counter = 1]

\* The response of line 314.
IncrUnavailable ==
  [Resp("POST /counter/increment", 200, CounterBody \cup {"error"}, FALSE,
        "not available", "fallback") EXCEPT !.error = "Redis not connected"]

IncrNoRedis ==
  /\ running
  /\ redis = NULL
  /\ last' = IncrUnavailable
  /\ UNCHANGED <<MSMQ_ENABLE, running, redisVars, mongoVars, rabbitVars, inMemoryUsers, inflight, returned, created, liveAfterFail>>

IncrStart ==
  /\ running
  /\ redis # NULL
  /\ Outstanding < MaxInflight
  /\ Issue("incr")
  /\ NoteLive({"redis"})
  /\ last' = NoResponse
  /\ UNCHANGED <<MSMQ_ENABLE, running, redisVars, mongoVars, rabbitVars, inMemoryUsers, returned, created>>

\* redis.incr resolved.
IncrReply ==
  /\ running
  /\ inflight["incr"] > 0
  /\ redisLink = "up"
  /\ counter < MaxCounter
  /\ Settle("incr")
  /\ counter' = RedisIncr(counter)
  /\ returned' = [returned EXCEPT !.values = Append(@, counter')]
  /\ last' = [Resp("POST /counter/increment", 200, CounterBody, TRUE, "redis", "live")
                EXCEPT !.counter = counter', !.live = "ok"]
  /\ UNCHANGED <<redis, redisLink>>
  /\ UNCHANGED <<MSMQ_ENABLE, running, mongoVars, rabbitVars, inMemoryUsers, created, liveAfterFail>>

\* redis.incr rejected: the catch of line 310 only logs, and line 317 answers.
IncrCatch ==
  /\ running
  /\ inflight["incr"] > 0
  /\ Settle("incr")
  /\ last' = [Resp("POST /counter/increment", 200, CounterBody, TRUE, "redis", "fallback")
                EXCEPT !.live = "raised"]
  /\ UNCHANGED <<MSMQ_ENABLE, running, redisVars, mongoVars, rabbitVars, inMemoryUsers, returned, created, liveAfterFail>>

\* ------------------------------------------------------ POST /queue/publish
PublishInvalid(message) ==
  /\ running
  /\ message = ""
  /\ last' = [Resp("POST /queue/publish", 400, {"success", "error"}, FALSE, "", "none")
                EXCEPT !.error = "Message is required"]
  /\ UNCHANGED <<MSMQ_ENABLE, running, redisVars, mongoVars, rabbitVars, inMemoryUsers, inflight, returned, created, liveAfterFail>>

PublishNoChannel(message) ==
  /\ running
  /\ message # ""
  /\ rabbitChannel = NULL
  /\ last' = [Resp("POST /queue/publish", 200, {"success", "error"}, FALSE, "", "none")
                EXCEPT !.error = "RabbitMQ not connected"]
  /\ UNCHANGED <<MSMQ_ENABLE, running, redisVars, mongoVars, rabbitVars, inMemoryUsers, inflight, returned, created, liveAfterFail>>

PublishSent(message) ==
  /\ running
  /\ message # ""
  /\ rabbitChannel # NULL
  /\ chanOpen
  /\ NoteLive({"rabbitmq"})
  /\ last' = [Resp("POST /queue/publish", 200, {"success", "queue", "message"}, TRUE, "", "live")
                EXCEPT !.publish = "sent"]
  /\ UNCHANGED <<MSMQ_ENABLE, running, redisVars, mongoVars, rabbitVars, inMemoryUsers, inflight, returned, created>>

\* sendToQueue throws on a closed channel: the catch of line 343.
PublishThrew(message) ==
  /\ running
  /\ message # ""
  /\ rabbitChannel # NULL
  /\ ~chanOpen
  /\ NoteLive({"rabbitmq"})
  /\ last' = [Resp("POST /queue/publish", 500, {"success", "error"}, FALSE, "", "none")
                EXCEPT !.error = "Failed to publish message", !.publish = "threw"]
  /\ UNCHANGED <<MSMQ_ENABLE, running, redisVars, mongoVars, rabbitVars, inMemoryUsers, inflight, returned, created>>

\* -------------------------------------------------------- GET /queue/status
StatusNoChannel ==
  /\ running
  /\ rabbitChannel = NULL
  /\ last' = [Resp("GET /queue/status", 200, {"success", "rabbitmq", "queue", "messageCount"},
                   TRUE, "", "fallback") EXCEPT !.rabbitmq = "not connected"]
  /\ UNCHANGED <<MSMQ_ENABLE, running, redisVars, mongoVars, rabbitVars, inMemoryUsers, inflight, returned, created, liveAfterFail>>

StatusStart ==
  /\ running
  /\ rabbitChannel # NULL
  /\ Outstanding < MaxInflight
  /\ Issue("checkQueue")
  /\ NoteLive({"rabbitmq"})
  /\ last' = NoResponse
  /\ UNCHANGED <<MSMQ_ENABLE, running, redisVars, mongoVars, rabbitVars, inMemoryUsers, returned, created>>

StatusReply ==
  /\ running
  /\ inflight["checkQueue"] > 0
  /\ chanOpen
  /\ Settle("checkQueue")
  /\ last' = [Resp("GET /queue/status", 200,
                   {"success", "rabbitmq", "queue", "messageCount", "consumerCount"},
                   TRUE, "", "live") EXCEPT !.rabbitmq = "connected", !.live = "ok"]
  /\ UNCHANGED <<MSMQ_ENABLE, running, redisVars, mongoVars, rabbitVars, inMemoryUsers, returned, created, liveAfterFail>>

\* checkQueue rejected (the broker closes a channel on which a check fails):
\* the catch of line 364.
StatusCatch ==
  /\ running
  /\ inflight["checkQueue"] > 0
  /\ Settle("checkQueue")
  /\ chanOpen' = FALSE
  /\ last' = [Resp("GET /queue/status", 200, {"success", "rabbitmq", "queue", "error"},
                   TRUE, "", "none") EXCEPT !.rabbitmq = "connected", !.error = "checkQueue failed",
                                           !.live = "raised"]
  /\ UNCHANGED <<rabbitChannel, rabbitConnected, rabbitPc>>
  /\ UNCHANGED <<MSMQ_ENABLE, running, redisVars, mongoVars, inMemoryUsers, returned, created, liveAfterFail>>

\* ---------------------------------------------------------- specification
RedisConnection == RedisConnectEvent \/ RedisErrorEvent \/ RedisRetry

MongoConnection == MongoConnectOk \/ MongoConnectFail

RabbitConnection ==
  \/ RabbitConnectOk \/ RabbitCreateChannelOk \/ RabbitAssertQueueOk \/ RabbitConnectFail
  \/ RabbitErrorEvent \/ RabbitCloseEvent \/ ChannelClosed

Connections == RedisConnection \/ MongoConnection \/ RabbitConnection

\* The connection events for which server.js has registered no handler.
UnhandledEvents == MongoLost \/ RabbitErrorUnhandled

StatusRoutes == Health \/ Info

UsersRoutes ==
  \/ GetUsersMemory \/ GetUsersStart \/ GetUsersFound \/ GetUsersCatch
  \/ \E name \in NameInputs, email \in EmailInputs :
       \/ PostUsersInvalid(name, email)
       \/ PostUsersMemory(name, email)
       \/ PostUsersStart(name, email)
  \/ PostUsersCreated \/ PostUsersCatch
  \/ \E id \in IdInputs : GetUserMemory(id) \/ GetUserFound(id)
  \/ GetUserStart \/ GetUserCatch

CounterRoutes ==
  \/ GetCounterNoRedis \/ GetCounterStart \/ GetCounterReply \/ GetCounterCatch
  \/ IncrNoRedis \/ IncrStart \/ IncrReply \/ IncrCatch

QueueRoutes ==
  \/ \E message \in MessageInputs :
       \/ PublishInvalid(message)
       \/ PublishNoChannel(message)
       \/ PublishSent(message)
       \/ PublishThrew(message)
  \/ StatusNoChannel \/ StatusStart \/ StatusReply \/ StatusCatch

Next == Connections \/ UnhandledEvents \/ StatusRoutes \/ UsersRoutes \/ CounterRoutes \/ QueueRoutes

Spec == Init /\ [][Next]_vars

\* The process serving only the counter routes, with the Redis client they use.
NextCounter == RedisConnection \/ StatusRoutes \/ CounterRoutes
SpecCounter == Init /\ [][NextCounter]_vars

\* The process serving only the users routes, with the MongoDB and RabbitMQ
\* connections they use, as far as server.js handles their events.
NextUsers == MongoConnection \/ RabbitConnection \/ StatusRoutes \/ UsersRoutes
SpecUsers == Init /\ [][NextUsers]_vars

\* The three connections with every event of theirs, and every route but
\* POST /users, the one route that grows the user stores.
UsersReadRoutes ==
  \/ GetUsersMemory \/ GetUsersStart \/ GetUsersFound \/ GetUsersCatch
  \/ \E id \in IdInputs : GetUserMemory(id) \/ GetUserFound(id)
  \/ GetUserStart \/ GetUserCatch

NextNoCreate ==
  Connections \/ UnhandledEvents \/ StatusRoutes \/ UsersReadRoutes \/ CounterRoutes \/ QueueRoutes
SpecNoCreate == Init /\ [][NextNoCreate]_vars

\* The three connections and the two routes that validate a request body,
\* POST /users and POST /queue/publish.
CreateRoutes ==
  \/ \E name \in NameInputs, email \in EmailInputs :
       \/ PostUsersInvalid(name, email)
       \/ PostUsersMemory(name, email)
       \/ PostUsersStart(name, email)
  \/ PostUsersCreated \/ PostUsersCatch

PublishRoutes ==
  \E message \in MessageInputs :
    \/ PublishInvalid(message)
    \/ PublishNoChannel(message)
    \/ PublishSent(message)
    \/ PublishThrew(message)

NextBodies == Connections \/ StatusRoutes \/ CreateRoutes \/ PublishRoutes
SpecBodies == Init /\ [][NextBodies]_vars

\* ================================================================ claims
IsHealth == last.route \in {"GET /health", "GET /info"}
IsIncr == last.route = "POST /counter/increment"
IsUsersRoute == last.route \in {"GET /users", "POST /users", "GET /users/:id"}
LiveLabels == {"redis", "mongodb"}

\* C1: with MSMQ_ENABLE off, the services object of GET /health and of
\* GET /info reports rabbitmq as 'disabled'.
C1_DisabledReported ==
  (IsHealth /\ ~MSMQ_ENABLE) => last.services.rabbitmq = "disabled"

\* C2: a POST /users that has stored the user record is answered 201 with
\* success true, whatever the user_created publish did.
C2_CreatedWhateverBroker ==
  (last.route = "POST /users" /\ last.stored) => (last.status = 201 /\ last.success)

\* C3: when redis is set and redis.incr raises, POST /counter/increment
\* answers with a failure: success is not true and the counter is not
\* presented as the cache's.
C3_IncrFaultSurfaced ==
  (IsIncr /\ last.live = "raised") => (~last.success /\ last.storage # "redis")

\* C4 as stated: with redis null, POST /counter/increment answers with a
\* failure and leaves the counter out of the response.
C4_CounterUnset ==
  (IsIncr /\ last.live = "none") => (~last.success /\ "counter" \notin last.keys)

\* C4 as amended: with redis null, POST /counter/increment answers success
\* false with storage 'not available', an error and the placeholder counter
\* 0, issues no call to Redis and leaves the api_counter key as it is.
C4_Unavailable ==
  /\ [](IsIncr /\ last.live = "none" =>
          /\ ~last.success
          /\ last.storage = "not available"
          /\ "error" \in last.keys
          /\ "counter" \in last.keys /\ last.counter = 0)
  /\ [][IsIncr' /\ last'.live = "none" =>
          /\ redis = NULL
          /\ UNCHANGED <<counter, returned, inflight>>]_vars

\* The failure is answered after an increment has gone through.
C4_Witness ==
  /\ IsIncr /\ last.live = "none"
  /\ redis = NULL
  /\ Len(returned.values) >= 1

\* C5: every successful increment returns the value before it plus one with
\* storage 'redis'; after k successful increments, outstanding together or
\* not, the key is k above its start and the k values returned are distinct.
C5_AtomicIncrement ==
  /\ counter = returned.start + Len(returned.values)
  /\ \A i \in 1..Len(returned.values) : returned.values[i] = returned.start + i
  /\ \A i, j \in 1..Len(returned.values) :
       i # j => returned.values[i] # returned.values[j]
  /\ (IsIncr /\ last.live = "ok") =>
       /\ last.success /\ last.storage = "redis"
       /\ last.counter = counter
       /\ last.counter = returned.values[Len(returned.values)]

\* An increment is answered while another one is still outstanding.
C5_Witness ==
  /\ IsIncr /\ last.live = "ok"
  /\ inflight["incr"] >= 1
  /\ last.counter = returned.start + Len(returned.values)

\* The largest id of a sequence of user records, 0 when it is empty.
MaxId(users) ==
  IF users = <<>> THEN 0
  ELSE CHOOSE m \in {users[i].id : i \in 1..Len(users)} :
         \A i \in 1..Len(users) : users[i].id <= m

\* C6: a create served from memory returns the record appended, whose id is
\* the largest id before it plus one, with storage 'memory'; the ids of
\* inMemoryUsers are distinct and increase in append order.
C6_MemoryIds ==
  /\ \A i, j \in 1..Len(inMemoryUsers) :
       i < j => inMemoryUsers[i].id < inMemoryUsers[j].id
  /\ (last.route = "POST /users" /\ last.status = 201 /\ last.src = "fallback") =>
       /\ last.storage = "memory"
       /\ last.data = <<inMemoryUsers[Len(inMemoryUsers)]>>
       /\ last.data[1].id = MaxId(SubSeq(inMemoryUsers, 1, Len(inMemoryUsers) - 1)) + 1

\* The second create served from memory, after the seed records: id 4.
C6_Witness ==
  /\ last.route = "POST /users" /\ last.storage = "memory"
  /\ Len(created.memory) >= 2
  /\ last.data[1].id = Len(SeedUsers) + 2

\* C7 as stated: after N successful creates to one storage path, a
\* GET /users served from that path returns exactly N records.
C7_ExactlyN ==
  /\ (last.route = "GET /users" /\ last.storage = "memory") =>
       last.count = Len(created.memory)
  /\ (last.route = "GET /users" /\ last.storage = "mongodb") =>
       last.count = Len(created.mongodb)

\* C7 as amended: after N successful creates to memory, GET /users from
\* memory returns the two seed records and then the N created ones in append
\* order; from MongoDB it returns every document of the collection, the N
\* created ones among them, by createdAt descending; GET /users changes
\* neither store, so repeating it reads the same records.
C7_ReadConsistency ==
  /\ [](last.route = "GET /users" /\ last.storage = "memory" =>
          /\ last.data = SeedUsers \o created.memory
          /\ last.data = inMemoryUsers
          /\ last.count = Len(SeedUsers) + Len(created.memory))
  /\ [](last.route = "GET /users" /\ last.storage = "mongodb" =>
          /\ last.count = Len(docs) /\ Len(last.data) = Len(docs)
          /\ last.count >= Len(created.mongodb)
          /\ \A i \in 1..Len(docs) : \E k \in 1..Len(last.data) : last.data[k] = docs[i]
          /\ \A i \in 1..Len(created.mongodb) :
               \E k \in 1..Len(last.data) : last.data[k] = created.mongodb[i]
          /\ \A i \in 1..(Len(last.data) - 1) :
               last.data[i].createdAt >= last.data[i + 1].createdAt)
  /\ [][last'.route = "GET /users" => UNCHANGED <<inMemoryUsers, docs, created>>]_vars

\* A list read from MongoDB after a create, with documents of two ticks.
C7_Witness ==
  /\ last.route = "GET /users" /\ last.storage = "mongodb"
  /\ Len(created.mongodb) >= 1
  /\ Len(last.data) >= 2
  /\ last.data[1].createdAt > last.data[2].createdAt

\* C8: when mongoConnected is true and the awaited call of a users route
\* raises, the request is answered from inMemoryUsers with storage 'memory'.
C8_FaultServedFromMemory ==
  (IsUsersRoute /\ last.live = "raised") => (last.success /\ last.storage = "memory")

\* C9: the storage field names the path the returned value came from: a
\* fallback value is not labelled with the live backend, and a value read
\* from the live backend is labelled with it.
C9_StorageNamesSource ==
  "storage" \in last.keys =>
     /\ last.src = "fallback" => last.storage \notin LiveLabels
     /\ last.src = "live" => last.storage \in LiveLabels

\* C10: while the connect of a backend has failed and none has succeeded
\* since, /health does not show it 'connected', and no request issues a live
\* call against it.
C10_FailedConnectStaysDown ==
  /\ \A b \in Backends : ConnectFailed(b) => Services[b] # "connected"
  /\ liveAfterFail = {}

\* All three connects have failed and a users list was served from memory.
C10_Witness ==
  /\ \A b \in Backends : ConnectFailed(b)
  /\ last.route = "GET /users" /\ last.storage = "memory"

IsCounterRoute == last.route \in {"GET /counter", "POST /counter/increment"}
IsPublish == last.route = "POST /queue/publish"
IsQueueStatus == last.route = "GET /queue/status"

\* C11: the path is chosen from the availability the handler reads when the
\* request is handled: a request is answered without a live call only when
\* the backend of its capability was unavailable at that moment, so the
\* first request after a backend has become available takes the live path.
C11_PathPerRequest ==
  [][ /\ (IsUsersRoute' /\ last'.live = "none" /\ last'.status # 400) => ~mongoConnected
      /\ (IsCounterRoute' /\ last'.live = "none") => redis = NULL
      /\ (IsPublish' /\ last'.publish = "none" /\ last'.status # 400) => ~rabbitConnected
      /\ (IsQueueStatus' /\ last'.live = "none") => ~rabbitConnected ]_vars

\* A users list read from MongoDB by a process that had created a record in
\* memory while MongoDB was not yet connected.
C11_Witness ==
  /\ last.route = "GET /users" /\ last.src = "live" /\ last.storage = "mongodb"
  /\ Len(created.memory) >= 1
  /\ mongoConnected

\* C12: with MSMQ_ENABLE off, connectRabbitMQ makes no connection attempt,
\* rabbitConnected stays false and rabbitChannel null in every state, and no
\* request publishes to the broker or inspects the queue.
C12_DisabledStaysOff ==
  ~MSMQ_ENABLE =>
     /\ rabbitPc = "disabled"
     /\ ~rabbitConnected /\ rabbitChannel = NULL /\ ~chanOpen
     /\ inflight["checkQueue"] = 0
     /\ last.publish = "none"
     /\ IsQueueStatus => (last.live = "none" /\ last.rabbitmq = "not connected")
     /\ (IsPublish /\ last.status # 400) => (~last.success /\ last.error = "RabbitMQ not connected")

\* A valid publish request turned away by the process that has the broker
\* disabled, with the other two backends connected.
C12_Witness ==
  /\ ~MSMQ_ENABLE
  /\ IsPublish /\ last.status = 200 /\ last.error = "RabbitMQ not connected"
  /\ mongoConnected /\ redisLink = "up"

\* C13: no backend fault stops the process or leaves a request unanswered:
\* in every state the process is alive, or at least it has answered every
\* request it had accepted.
C13_NoRequestLost == running \/ Outstanding = 0

\* A step in which POST /users handles a body without name or email, and a
\* step in which POST /queue/publish handles a body without message.
InvalidUserStep ==
  \E name \in NameInputs, email \in EmailInputs :
    /\ name = "" \/ email = ""
    /\ PostUsersInvalid(name, email) \/ PostUsersMemory(name, email) \/ PostUsersStart(name, email)

InvalidPublishStep ==
  \E message \in MessageInputs :
    /\ message = ""
    /\ \/ PublishInvalid(message) \/ PublishNoChannel(message)
       \/ PublishSent(message) \/ PublishThrew(message)

\* C14: a request that fails validation is answered 400 in the step that
\* handles it, with no call to MongoDB, Redis or RabbitMQ, and with
\* inMemoryUsers, the stores and every availability flag left as they were;
\* the rejection is available in every state of the backends.
C14_ValidationFirst ==
  /\ [][ (InvalidUserStep \/ InvalidPublishStep \/ last'.status = 400) =>
           /\ last'.status = 400 /\ ~last'.success /\ last'.keys = {"success", "error"}
           /\ last'.live = "none" /\ last'.publish = "none" /\ ~last'.stored
           /\ UNCHANGED <<redisVars, mongoVars, rabbitVars, inMemoryUsers,
                          inflight, returned, created, liveAfterFail, running>> ]_vars
  /\ [](running =>
          /\ \A name \in NameInputs, email \in EmailInputs :
               (name = "" \/ email = "") => ENABLED PostUsersInvalid(name, email)
          /\ ENABLED PublishInvalid(""))

\* A body without name rejected while MongoDB and RabbitMQ are connected and
\* a create is waiting for MongoDB.
C14_Witness ==
  /\ last.route = "POST /users" /\ last.status = 400
  /\ mongoConnected /\ rabbitConnected /\ redis # NULL
  /\ inflight["create"] >= 1

\* Whether a connection to the backend has been established: the Redis
\* socket is up, mongoose.connect has resolved, amqplib.connect has resolved.
Established(b) ==
  CASE b = "redis" -> redisLink = "up"
    [] b = "mongodb" -> mongoPc \in {"connected", "lost"}
    [] b = "rabbitmq" -> rabbitPc \in {"createChannel", "assertQueue", "done", "closed"}

\* C15: a backend is reported 'connected' by GET /health and GET /info only
\* when a connection to it has been established, and a counter request waits
\* on Redis only when the client has connected, not merely been constructed.
C15_AvailableAfterConnect ==
  /\ IsHealth => \A b \in Backends : last.services[b] = "connected" => Established(b)
  /\ (redis # NULL /\ inflight["get"] + inflight["incr"] > 0) => Established("redis")

\* C16: in every state, the connect in progress and the states after an
\* error or close event included, rabbitConnected = true implies that
\* rabbitChannel is not null, and a backend that GET /health reports
\* 'connected' has a non-null session.
C16_AvailableHasSession ==
  /\ rabbitConnected => rabbitChannel # NULL
  /\ IsHealth =>
       /\ last.services.rabbitmq = "connected" => rabbitChannel # NULL
       /\ last.services.redis = "connected" => redis # NULL

\* RabbitMQ reported 'connected' with the channel object held, after the
\* broker has closed that channel.
C16_Witness ==
  /\ IsHealth /\ last.services.rabbitmq = "connected"
  /\ rabbitConnected /\ rabbitChannel = CHANNEL /\ ~chanOpen

\* C17: the flag and the session change together: a request never runs in a
\* state where rabbitChannel is set while rabbitConnected is false, so
\* whenever GET /health is handled with a channel held it reports RabbitMQ
\* 'connected', and the other way round.
C17_FlagAndSessionTogether ==
  IsHealth => (rabbitChannel # NULL <=> last.services.rabbitmq = "connected")

\* The awaited calls a step has issued against a backend.
Issued(c) == inflight'[c] > inflight[c]

\* C18: a request makes a live call only when the availability snapshot of
\* the state it is handled in reports the backend 'connected': the users
\* routes call MongoDB only with mongodb 'connected', the counter routes
\* call Redis only with redis 'connected', and POST /queue/publish,
\* GET /queue/status and the publish inside POST /users touch the broker
\* only with rabbitmq 'connected'.
C18_LiveOnlyWhenReported ==
  [][ /\ (Issued("find") \/ Issued("create") \/ Issued("findById")) =>
           Services.mongodb = "connected"
      /\ (Issued("get") \/ Issued("incr")) => Services.redis = "connected"
      /\ (Issued("checkQueue") \/ last'.publish # "none") =>
           Services.rabbitmq = "connected" ]_vars

\* C19: when the live call of a request raises, the handle of that backend
\* is demoted by the time the request is answered: mongoConnected false
\* after a users route, redis null after a counter route, rabbitChannel null
\* and rabbitConnected false after a queue route or a publish that threw.
C19_RaiseDemotes ==
  /\ (IsUsersRoute /\ last.live = "raised") => ~mongoConnected
  /\ (IsCounterRoute /\ last.live = "raised") => redis = NULL
  /\ (IsQueueStatus /\ last.live = "raised") => (rabbitChannel = NULL /\ ~rabbitConnected)
  /\ last.publish = "threw" => (rabbitChannel = NULL /\ ~rabbitConnected)

\* Whether the connection of a backend has dropped, by an error or a close,
\* after it had been established.
Dropped(b) ==
  CASE b = "redis" -> redisLink = "lost"
    [] b = "mongodb" -> mongoPc = "lost"
    [] b = "rabbitmq" -> rabbitPc = "closed"

\* C20: for each of the three backends, once its connection has dropped
\* after a successful connect the handle is unavailable with a null session
\* and the status snapshot reports it 'not connected'.
C20_DropDemotes ==
  \A b \in Backends :
    Dropped(b) =>
      /\ Services[b] = "not connected"
      /\ b = "redis" => redis = NULL
      /\ b = "mongodb" => ~mongoConnected
      /\ b = "rabbitmq" => (rabbitChannel = NULL /\ ~rabbitConnected)

\* C21: each connect runs once, at start, so a handle that an error or close
\* event has demoted stays down: once redis is null it stays null, also when
\* the client has reconnected by itself; once the RabbitMQ connection has
\* closed, rabbitConnected stays false and rabbitChannel null; and no step
\* sets mongoConnected after connectMongo has ended.
C21_DemotedStaysDown ==
  /\ [][ /\ redis = NULL => redis' = NULL
         /\ rabbitPc = "closed" =>
              (rabbitPc' = "closed" /\ ~rabbitConnected' /\ rabbitChannel' = NULL)
         /\ (mongoPc # "connecting" /\ ~mongoConnected) => ~mongoConnected' ]_vars
  /\ [](/\ Dropped("redis") => Services.redis = "not connected"
        /\ Dropped("rabbitmq") => Services.rabbitmq = "not connected")

\* Redis reported 'not connected' although the client has reconnected after
\* the error, and RabbitMQ reported 'not connected' after its close.
C21_Witness ==
  /\ IsHealth
  /\ redis = NULL /\ redisLink = "up" /\ last.services.redis = "not connected"
  /\ rabbitPc = "closed" /\ last.services.rabbitmq = "not connected"

\* Whether sequence a is the beginning of sequence b.
IsPrefix(a, b) == Len(a) <= Len(b) /\ SubSeq(b, 1, Len(a)) = a

\* C22: the two user stores are never mixed: a create served from memory
\* leaves the users collection unchanged; the collection grows only by the
\* one document of a create whose User.create resolved, and that step leaves
\* inMemoryUsers unchanged; no step removes or rewrites a record of
\* inMemoryUsers or a document; and the steps of GET /users, GET /users/:id,
\* GET /health and GET /info change neither store nor an availability flag.
C22_StoresApart ==
  [][ /\ (last'.route = "POST /users" /\ last'.storage = "memory") => docs' = docs
      /\ docs' # docs =>
           /\ inMemoryUsers' = inMemoryUsers
           /\ last'.route = "POST /users" /\ last'.live = "ok"
           /\ Len(docs') = Len(docs) + 1
           /\ \A k \in 1..Len(inMemoryUsers) : docs'[Len(docs')] # inMemoryUsers[k]
      /\ inMemoryUsers' # inMemoryUsers =>
           /\ last'.route = "POST /users" /\ last'.storage = "memory"
           /\ Len(inMemoryUsers') = Len(inMemoryUsers) + 1
      /\ IsPrefix(inMemoryUsers, inMemoryUsers') /\ IsPrefix(docs, docs')
      /\ ( \/ last'.route \in {"GET /users", "GET /users/:id", "GET /health", "GET /info"}
           \/ Issued("find") \/ Issued("findById") ) =>
           UNCHANGED <<inMemoryUsers, docs, mongoConnected, redis, rabbitChannel, rabbitConnected>> ]_vars

\* A create stored in MongoDB by a process that had created a record in
\* memory before: each store holds its own record only.
C22_Witness ==
  /\ last.route = "POST /users" /\ last.storage = "mongodb" /\ last.status = 201
  /\ Len(created.memory) >= 1 /\ Len(created.mongodb) >= 1
  /\ inMemoryUsers = SeedUsers \o created.memory
  /\ docs[Len(docs)] = created.mongodb[Len(created.mongodb)]

====
